---------------------------- MODULE Spec2Model ----------------------------
(***************************************************************************)
(* Model of the GPT chat / summarization assistant.                        *)
(*                                                                         *)
(*   src/utils/openai_mgmt.py            token counting, completion call   *)
(*   src/utils/text_extract_summarize.py fetch, extract, chunk, summarize  *)
(*   src/app.py                          the Dash callbacks                *)
(*                                                                         *)
(* Python strings are modelled as sequences of atoms.  An atom is a record *)
(* [a, id, tok]: a literal piece of text (a), a number that identifies a   *)
(* sentence or is formatted into the text (id), and, for a sentence, the   *)
(* number of tokens tiktoken counts in it (tok).  The empty string is <<>>,*)
(* string concatenation is \o.                                             *)
(***************************************************************************)
EXTENDS Integers, Sequences, FiniteSets, TLC

\* Bounds of the model.
MaxSentences == 3
MaxTok == 3
MaxLimit == 3
MaxHistory == 4         \* no prompt is sent once the history is this long
MaxDocSentences == 2    \* sentences of a fetched or uploaded document

\* src/app.py
MAX_TOKENS_PER_CHUNK == 7000
SummPercent == 10       \* the value of the 'summ-percent' input as loaded

VARIABLES
    pc,             \* position of the pipeline run: "input", "chunked", "done"
    sentences,      \* the sentence list handed to split_into_chunks
    tokens_limit,   \* the limit handed to split_into_chunks / process_text
    fail_at,        \* chunk positions whose completion call the provider fails
    summarize_mode, \* the summarize_type handed to process_text
    chunks,         \* the list split_into_chunks returned
    summary,        \* what process_text did: kind, value, the calls it made
    history,        \* dcc.Store 'history': the conversation sent to the provider
    outputs,        \* dcc.Store 'outputs': the displayed conversation
    summ_outputs,   \* dcc.Store 'summ-outputs': the displayed summaries
    text_output,    \* children of the 'text-output' div
    user_text_input,\* value of the prompt text area
    disabled,       \* the 'disabled' property of every button
    chat_job,       \* the running update_answer_output call and its arguments
    summ_job,       \* the running update_summarize_output call and its arguments
    last            \* what the callback that finished last did

pvars == <<pc, sentences, tokens_limit, fail_at, summarize_mode, chunks, summary>>
avars == <<history, outputs, summ_outputs, text_output, user_text_input,
           disabled, chat_job, summ_job, last>>
vars == <<pvars, avars>>

-----------------------------------------------------------------------------
\* Strings.

\* Python's None, and a value that is not None (a string or a list).
None == [is_none |-> TRUE, data |-> <<>>]
Val(d) == [is_none |-> FALSE, data |-> d]

Lit(s) == [a |-> s, id |-> 0, tok |-> 0]
Num(n) == [a |-> "#", id |-> n, tok |-> 0]
SP  == Lit(" ")
NL2 == Lit("\n\n")
Sentence(i, t) == [a |-> "sentence", id |-> i, tok |-> t]
IsSentence(x) == x.a = "sentence"

\* The sentences of a string, in order (the string with everything else dropped).
RECURSIVE SentencesOf(_)
SentencesOf(s) ==
    IF s = <<>> THEN <<>>
    ELSE (IF IsSentence(Head(s)) THEN <<Head(s)>> ELSE <<>>) \o SentencesOf(Tail(s))

RECURSIVE Flatten(_)
Flatten(ss) == IF ss = <<>> THEN <<>> ELSE Head(ss) \o Flatten(Tail(ss))

RECURSIVE SumTok(_)
SumTok(s) == IF s = <<>> THEN 0 ELSE Head(s).tok + SumTok(Tail(s))

-----------------------------------------------------------------------------
\* src/utils/consts.py

AI_SUMMARIZATION_TYPE ==
    [TEXT_SUMMARIZATION |-> "Text summarization",
     BULLET_POINTS      |-> "Bullet points",
     FOCUS_QUESTION     |-> "Focus on question"]

SummTypes == {AI_SUMMARIZATION_TYPE.TEXT_SUMMARIZATION,
              AI_SUMMARIZATION_TYPE.BULLET_POINTS,
              AI_SUMMARIZATION_TYPE.FOCUS_QUESTION}

-----------------------------------------------------------------------------
\* src/utils/openai_mgmt.py

\* num_tokens_in_string applied to one sentence: the length of its encoding.
num_tokens_in_string(sentence) == sentence.tok

\* The provider's answer to a call is an input of the model: an error, or a
\* completion with some content.
ProviderError == [error |-> TRUE,  content |-> <<Lit("OpenAIError")>>]
ProviderReply(content) == [error |-> FALSE, content |-> content]

\* openai_completion (lines 16-34): the content of the completion, or the
\* provider's error re-raised.  messages: the request the provider was sent.
openai_completion(prompt, answer) ==
    IF answer.error
    THEN [raised |-> TRUE,  value |-> answer.content, messages |-> prompt]
    ELSE [raised |-> FALSE, value |-> answer.content, messages |-> prompt]

\* The completion the provider gives to a summarization prompt.  Its text is
\* the provider's own; the model names it after the first sentence of the
\* prompt, so that the summaries of different chunks are different strings.
ReplyTo(text) ==
    LET ss == SentencesOf(text)
    IN  <<[a |-> "summary", id |-> (IF ss = <<>> THEN 0 ELSE ss[1].id), tok |-> 0]>>

-----------------------------------------------------------------------------
\* src/utils/text_extract_summarize.py: texts and sentences

\* A text: its sentences (as token counts) and whether it has white space
\* besides them.  len(text) > 0 unless it has neither.
Text(pad, toks) == [pad |-> pad, toks |-> toks]
TextLen(text) == (IF text.pad THEN 1 ELSE 0) + Len(text.toks)
\* split_into_sentences (lines 78-82): nltk's sent_tokenize.
split_into_sentences(text) == [i \in 1..Len(text.toks) |-> Sentence(i, text.toks[i])]
\* len(nltk.word_tokenize(text)).  Only figures printed into prompts and banners
\* depend on it; it is taken to be the size in tokens.
num_words_of(text) == SumTok(split_into_sentences(text))

-----------------------------------------------------------------------------
\* src/utils/text_extract_summarize.py: split_into_chunks

\* chunk_step with the new buffer left empty instead of seeded with the sentence.
chunk_step_unseeded(st, sentence) ==
    LET sentence_tokens == num_tokens_in_string(sentence)
    IN  IF st.current_chunk_tokens + sentence_tokens > st.tokens_limit
        THEN [st EXCEPT !.chunks = Append(@, st.current_chunk),
                        !.current_chunk = <<>>,
                        !.current_chunk_tokens = sentence_tokens]
        ELSE [st EXCEPT !.current_chunk = @ \o <<SP, sentence>>,
                        !.current_chunk_tokens = @ + sentence_tokens]

\* chunk_step with the limit test on the sentence alone, the running count left out.
chunk_step_no_running_count(st, sentence) ==
    LET sentence_tokens == num_tokens_in_string(sentence)
    IN  IF sentence_tokens > st.tokens_limit
        THEN [st EXCEPT !.chunks = Append(@, st.current_chunk),
                        !.current_chunk = <<sentence>>,
                        !.current_chunk_tokens = sentence_tokens]
        ELSE [st EXCEPT !.current_chunk = @ \o <<SP, sentence>>,
                        !.current_chunk_tokens = @ + sentence_tokens]

\* chunk_step with the limit test turned round: a new chunk is started when the
\* sentence still fits.
chunk_step_flush_when_fits(st, sentence) ==
    LET sentence_tokens == num_tokens_in_string(sentence)
    IN  IF st.current_chunk_tokens + sentence_tokens <= st.tokens_limit
        THEN [st EXCEPT !.chunks = Append(@, st.current_chunk),
                        !.current_chunk = <<sentence>>,
                        !.current_chunk_tokens = sentence_tokens]
        ELSE [st EXCEPT !.current_chunk = @ \o <<SP, sentence>>,
                        !.current_chunk_tokens = @ + sentence_tokens]

\* One pass of the loop body over a sentence (lines 95-102).
chunk_step(st, sentence) ==
    LET sentence_tokens == num_tokens_in_string(sentence)
    IN  IF st.current_chunk_tokens + sentence_tokens > st.tokens_limit
        THEN [st EXCEPT !.chunks = Append(@, st.current_chunk),
                        !.current_chunk = <<sentence>>,
                        !.current_chunk_tokens = sentence_tokens]
        ELSE [st EXCEPT !.current_chunk = @ \o <<SP, sentence>>,
                        !.current_chunk_tokens = @ + sentence_tokens]

RECURSIVE chunk_loop(_, _)
chunk_loop(st, rest) ==
    IF rest = <<>> THEN st ELSE chunk_loop(chunk_step(st, Head(rest)), Tail(rest))

\* The flush after the loop (lines 104-107).
chunk_flush(st) ==
    IF st.current_chunk # <<>> THEN Append(st.chunks, st.current_chunk) ELSE st.chunks

split_into_chunks(sents, limit) ==
    chunk_flush(chunk_loop([chunks |-> <<>>, current_chunk |-> <<>>,
                            current_chunk_tokens |-> 0, tokens_limit |-> limit],
                           sents))

-----------------------------------------------------------------------------
\* src/utils/text_extract_summarize.py: summarize_chunk, process_text

\* len(nltk.word_tokenize(chunk)), as num_words_of.
num_of_words(chunk) == SumTok(chunk)

\* user_prompt with the wording for a single chunk whatever num_chunks is.
user_prompt_single_chunk_wording(num_chunks, chunk_pos, chunk, summarize_type, question, length_percentage) ==
    LET short_size == (num_of_words(chunk) * length_percentage) \div 100
        bullet_option ==
            IF summarize_type = AI_SUMMARIZATION_TYPE.BULLET_POINTS
            THEN <<Lit("with capturing main points and key details in form of bullets from")>>
            ELSE IF summarize_type = AI_SUMMARIZATION_TYPE.TEXT_SUMMARIZATION
            THEN <<Lit("with capturing main points and key details from")>>
            ELSE <<>>
    IN  IF summarize_type \in {AI_SUMMARIZATION_TYPE.TEXT_SUMMARIZATION,
                               AI_SUMMARIZATION_TYPE.BULLET_POINTS}
        THEN <<Lit("Please summarize ")>> \o bullet_option
             \o <<Lit(" the following text in "), Num(short_size), Lit(" words: ")>> \o chunk
        ELSE IF summarize_type = AI_SUMMARIZATION_TYPE.FOCUS_QUESTION
        THEN <<Lit("Please analyze the following text and provide a summary in "),
               Num(short_size), Lit(" words focusing on the question: "),
               Lit(question), Lit(". The text is: ")>> \o chunk
        ELSE <<>>

\* The user prompt of summarize_chunk (lines 121-153).
user_prompt(num_chunks, chunk_pos, chunk, summarize_type, question, length_percentage) ==
    LET short_size == (num_of_words(chunk) * length_percentage) \div 100
        bullet_option ==
            IF summarize_type = AI_SUMMARIZATION_TYPE.BULLET_POINTS
            THEN <<Lit("with capturing main points and key details in form of bullets from")>>
            ELSE IF summarize_type = AI_SUMMARIZATION_TYPE.TEXT_SUMMARIZATION
            THEN <<Lit("with capturing main points and key details from")>>
            ELSE <<>>
    IN  IF summarize_type \in {AI_SUMMARIZATION_TYPE.TEXT_SUMMARIZATION,
                               AI_SUMMARIZATION_TYPE.BULLET_POINTS}
        THEN IF num_chunks > 1
             THEN <<Lit("Please summarize ")>> \o bullet_option
                  \o <<Lit(" the following "), Num(chunk_pos),
                       Lit(". part of the larger text "), Lit("in "),
                       Num(short_size), Lit(" words: ")>> \o chunk
             ELSE <<Lit("Please summarize ")>> \o bullet_option
                  \o <<Lit(" the following text in "), Num(short_size),
                       Lit(" words: ")>> \o chunk
        ELSE IF summarize_type = AI_SUMMARIZATION_TYPE.FOCUS_QUESTION
        THEN IF num_chunks > 1
             THEN <<Lit("Please analyze the "), Num(chunk_pos),
                    Lit(". part of the larger text and provide a summary in "),
                    Num(short_size), Lit(" words focusing on the question: "),
                    Lit(question), Lit(". This part of the text is: ")>> \o chunk
             ELSE <<Lit("Please analyze the following text and provide a summary in "),
                    Num(short_size), Lit(" words focusing on the question: "),
                    Lit(question), Lit(". The text is: ")>> \o chunk
        ELSE <<>>

system_prompt ==
    <<Lit("You are a summarization expert. Your summary should be accurate and objective. Add headings and subheadings. Use markdown for formatting.")>>

gpt_prompt(num_chunks, chunk_pos, chunk, summarize_type, question, length_percentage) ==
    <<[role |-> "system", content |-> system_prompt],
      [role |-> "user",
       content |-> user_prompt(num_chunks, chunk_pos, chunk, summarize_type,
                               question, length_percentage)]>>

\* (The backquotes around the question are left out of the literals.)
\* summarize_chunk: the completion of the two-message prompt; a provider error
\* is re-raised (lines 110-174).  provider_fails: the provider fails this call.
summarize_chunk(num_chunks, chunk_pos, chunk, summarize_type, question, length_percentage, provider_fails) ==
    LET p == gpt_prompt(num_chunks, chunk_pos, chunk, summarize_type, question,
                        length_percentage)
    IN  openai_completion(p, IF provider_fails THEN ProviderError
                             ELSE ProviderReply(ReplyTo(p[2].content)))

\* One pass of the loop body of process_text over a chunk (lines 196-210).  The
\* except branch raises and the else branch returns: both leave the function.
process_step(st, num_chunks, chunk_pos, chunk, summarize_type, question, length_percentage, fails) ==
    LET r == summarize_chunk(num_chunks, chunk_pos + 1, chunk, summarize_type,
                             question, length_percentage, (chunk_pos + 1) \in fails)
        called == Append(st.calls, chunk_pos + 1)
        sent == Append(st.requests, r.messages)
    IN  IF r.raised
        THEN [st EXCEPT !.kind = "raise", !.value = r.value, !.calls = called,
                        !.requests = sent]
        ELSE [st EXCEPT !.kind = "return",
                        !.value = st.summary_pieces \o <<NL2>> \o r.value,
                        !.summary_pieces = st.summary_pieces \o <<NL2>> \o r.value,
                        !.calls = called, !.requests = sent]

\* The loop of process_text.  kind "none" is the function still running; a loop
\* that runs off its end leaves it "none": the function returns None.
RECURSIVE process_loop(_, _, _, _, _, _, _)
process_loop(st, chs, chunk_pos, summarize_type, question, length_percentage, fails) ==
    IF st.kind # "none" \/ chunk_pos >= Len(chs) THEN st
    ELSE process_loop(process_step(st, Len(chs), chunk_pos, chs[chunk_pos + 1],
                                   summarize_type, question, length_percentage, fails),
                      chs, chunk_pos + 1, summarize_type, question,
                      length_percentage, fails)

\* process_text (lines 177-210).  fails: the chunk positions whose completion
\* call the provider fails.
process_text(content_text, summarize_type, question, limit, length_percentage, fails) ==
    LET sents == split_into_sentences(content_text)
        chs == split_into_chunks(sents, limit)
    IN  process_loop([kind |-> "none", value |-> <<>>, summary_pieces |-> <<>>,
                      calls |-> <<>>, requests |-> <<>>],
                     chs, 0, summarize_type, question, length_percentage, fails)

-----------------------------------------------------------------------------
\* src/utils/text_extract_summarize.py: fetching and extracting

\* Content-Type header values and str.lower() on them.
ContentTypes == {"Application/PDF", "text/html; charset=UTF-8", "text/plain"}
Lower(ct) ==
    IF ct = "Application/PDF" THEN "application/pdf"
    ELSE IF ct = "text/html; charset=UTF-8" THEN "text/html; charset=utf-8"
    ELSE ct
\* 'application/pdf' in content_type, 'text/html' in content_type
HasPdf(ct) == ct \in {"application/pdf"}
HasHtml(ct) == ct \in {"text/html; charset=utf-8", "text/html"}

\* get_content_from_url (lines 17-38).  resp: whether requests.get got a
\* response at all, its status code and its Content-Type header (None: absent).
\* The header is read (line 27) before raise_for_status is called (line 28).
\* exc: the class of the exception raised.
get_content_from_url(resp) ==
    IF ~resp.connected
    THEN [raised |-> TRUE, exc |-> "ConnectionError", error |-> <<Lit("ConnectionError")>>,
          content_type |-> ""]
    ELSE IF resp.content_type.is_none
    THEN [raised |-> TRUE, exc |-> "KeyError", error |-> <<Lit("KeyError: 'Content-Type'")>>,
          content_type |-> ""]
    ELSE IF resp.status_code >= 400 /\ resp.status_code < 600
    THEN [raised |-> TRUE, exc |-> "HTTPError",
          error |-> <<Num(resp.status_code), Lit(" Error")>>, content_type |-> ""]
    ELSE IF resp.status_code = 200
    THEN [raised |-> FALSE, exc |-> "", error |-> <<>>,
          content_type |-> Lower(resp.content_type.data)]
    ELSE [raised |-> TRUE, exc |-> "HTTPError", error |-> <<Num(resp.status_code)>>,
          content_type |-> ""]

\* retrieve_pdf_from_response (lines 41-51)
retrieve_pdf_from_response(body, content_type) ==
    IF ~HasPdf(content_type)
    THEN [raised |-> TRUE, error |-> <<Lit("Invalid content type: "), Lit(content_type),
                                       Lit(", expected PDF.")>>, value |-> body]
    ELSE [raised |-> FALSE, error |-> <<>>, value |-> body]

\* extract_text_from_pdf (lines 54-75): PdfReader raises on bytes that are no
\* PDF; otherwise the text of the pages and its number of words.
extract_text_from_pdf(pdf_file) ==
    IF pdf_file.kind # "pdf"
    THEN [raised |-> TRUE, error |-> <<Lit("PdfReadError")>>,
          text |-> Text(FALSE, <<>>), num_words |-> 0]
    ELSE [raised |-> FALSE, error |-> <<>>, text |-> pdf_file.text,
          num_words |-> num_words_of(pdf_file.text)]

\* page_to_string (lines 224-245): the visible text of the page and its number
\* of words; the parser raises on a body it rejects.
page_to_string(body, content_type) ==
    IF ~HasHtml(content_type)
    THEN [raised |-> TRUE, error |-> <<Lit("Invalid content type: "), Lit(content_type),
                                       Lit(", expected HTML.")>>,
          text |-> Text(FALSE, <<>>), num_words |-> 0]
    ELSE IF body.kind = "rejected"
    THEN [raised |-> TRUE, error |-> <<Lit("ParserRejectedMarkup")>>,
          text |-> Text(FALSE, <<>>), num_words |-> 0]
    ELSE [raised |-> FALSE, error |-> <<>>, text |-> body.text,
          num_words |-> num_words_of(body.text)]

-----------------------------------------------------------------------------
\* src/app.py: the conversation.  A background callback starts when its button
\* is clicked, with the State values of that moment as its arguments; while it
\* runs the buttons of its running= list are disabled; when it returns, its
\* return values are written to its Outputs.

Buttons == {"prompt-button", "clear-button", "download-button",
            "summ-button", "download-summ-button"}

\* What a finished callback did, for the claims to read.
NoObs == [cb |-> "none", failed |-> FALSE, uncaught |-> FALSE, llm_calls |-> 0,
          invalid_input |-> FALSE, provider_raised |-> FALSE, path |-> "none",
          fetch_failed |-> FALSE, extract_failed |-> FALSE, unsupported |-> FALSE,
          status_code |-> 0, fetch_exc |-> "", content_type |-> ""]

Contains(s, word) == \E i \in 1..Len(s) : s[i].a = word

\* AI_ROLE_OPTIONS_EN (src/utils/consts.py), the key words as atoms of their own.
AI_ROLE_OPTIONS_EN ==
    <<<<Lit("helpful general assistant")>>,
      <<Lit("expert in "), Lit("physics"), Lit(", including quantum "), Lit("physics")>>,
      <<Lit("text "), Lit("proofreader")>>>>

\* get_system_prompt (lines 38-49)
get_system_prompt(sys_prompt, ai_custom_role) ==
    LET base == IF ~ai_custom_role.is_none /\ Len(ai_custom_role.data) > 0
                THEN <<Lit("You are ")>> \o ai_custom_role.data \o <<Lit(".")>>
                ELSE <<Lit("You are ")>> \o sys_prompt \o <<Lit(".")>>
    IN  IF \E w \in {"school", "physics", "math", "maths", "mathematics"} : Contains(base, w)
        THEN base \o <<Lit(" If you answer with equations, write them as separate blocks in LaTeX and delimit them with $$.")>>
        ELSE IF Contains(sys_prompt, "proofreader")
        THEN base \o <<Lit(" Proofread and correct this text: ")>>
        ELSE base

\* fix_latex (lines 296-314): every $$...$$ block enclosed in newlines.
RECURSIVE fix_latex(_)
fix_latex(output_text) ==
    IF output_text = <<>> THEN <<>>
    ELSE (IF Head(output_text).a = "$$latex$$"
          THEN <<Lit("\n"), Head(output_text), Lit("\n")>>
          ELSE <<Head(output_text)>>) \o fix_latex(Tail(output_text))

\* dcc.Markdown(children)
Markdown(children) == [children |-> children]

\* answer_empty_prompt with the empty prompt recorded in the history.
answer_empty_prompt_recorded(history1, outputs0, input_text) ==
    [text_output     |-> Val(<<Markdown(<<Lit("Please enter a prompt.")>>)>>),
     user_text_input |-> input_text,
     history         |-> Val(Append(history1, [role |-> "user", content |-> input_text.data])),
     outputs         |-> Val(outputs0),
     obs |-> [NoObs EXCEPT !.cb = "chat", !.failed = TRUE, !.invalid_input = TRUE]]

\* update_answer_output with an empty or missing prompt (lines 366-369).  A
\* single component as children of 'text-output' is written as a list of one.
answer_empty_prompt(history1, outputs0, input_text) ==
    [text_output     |-> Val(<<Markdown(<<Lit("Please enter a prompt.")>>)>>),
     user_text_input |-> input_text,
     history         |-> Val(history1),
     outputs         |-> Val(outputs0),
     obs |-> [NoObs EXCEPT !.cb = "chat", !.failed = TRUE, !.invalid_input = TRUE]]

\* answer_prompt with the messages of the turn put in front of the history, as
\* the outputs are, instead of appended.
answer_prompt_newest_first(history1, outputs0, input_text, answer) ==
    LET history2 == <<[role |-> "user", content |-> input_text.data]>> \o history1
        r == openai_completion(history2, answer)
        api_error == r.raised
        output_text == IF r.raised THEN <<Lit("OpenAI API error: ")>> \o r.value
                       ELSE fix_latex(r.value)
        history3 == IF r.raised THEN history2
                    ELSE <<[role |-> "assistant", content |-> output_text]>> \o history2
        outputs1 == <<Markdown(<<Lit("\n[user]: ")>> \o input_text.data),
                      Markdown(<<Lit("[bot]: ")>> \o output_text)>> \o outputs0
    IN  [text_output     |-> Val(outputs1),
         user_text_input |-> IF api_error THEN input_text ELSE Val(<<>>),
         history         |-> Val(history3),
         outputs         |-> Val(outputs1),
         obs |-> [NoObs EXCEPT !.cb = "chat", !.failed = api_error,
                               !.provider_raised = api_error, !.llm_calls = 1]]

\* update_answer_output with a prompt (lines 370-398).  answer: the provider's.
answer_prompt(history1, outputs0, input_text, answer) ==
    LET history2 == Append(history1, [role |-> "user", content |-> input_text.data])
        r == openai_completion(history2, answer)
        api_error == r.raised
        output_text == IF r.raised THEN <<Lit("OpenAI API error: ")>> \o r.value
                       ELSE fix_latex(r.value)
        history3 == IF r.raised THEN history2
                    ELSE Append(history2, [role |-> "assistant", content |-> output_text])
        outputs1 == <<Markdown(<<Lit("\n[user]: ")>> \o input_text.data),
                      Markdown(<<Lit("[bot]: ")>> \o output_text)>> \o outputs0
    IN  [text_output     |-> Val(outputs1),
         user_text_input |-> IF api_error THEN input_text ELSE Val(<<>>),
         history         |-> Val(history3),
         outputs         |-> Val(outputs1),
         obs |-> [NoObs EXCEPT !.cb = "chat", !.failed = api_error,
                               !.provider_raised = api_error, !.llm_calls = 1]]

\* update_answer_output (lines 343-398), after a click on the prompt button:
\* prompt_button_clicks is a number and the trigger is the prompt button.
update_answer_output(hist, outs, sys_prompt, ai_custom_role, input_text, answer) ==
    LET history0 == IF hist.is_none THEN <<>> ELSE hist.data
        outputs0 == IF outs.is_none THEN <<>> ELSE outs.data
        history1 == IF Len(history0) = 0
                    THEN Append(history0,
                                [role |-> "system",
                                 content |-> get_system_prompt(sys_prompt, ai_custom_role)])
                    ELSE history0
    IN  IF input_text.is_none \/ Len(input_text.data) = 0
        THEN answer_empty_prompt(history1, outputs0, input_text)
        ELSE answer_prompt(history1, outputs0, input_text, answer)

\* update_clear_button (lines 285-293)
update_clear_button ==
    [text_output |-> None, user_text_input |-> None,
     history |-> Val(<<>>), outputs |-> Val(<<>>)]

-----------------------------------------------------------------------------
\* src/app.py: the summarization callback

\* str(x) of a value process_text gave back or summary was initialised to.
PyStr(v) == IF v.kind = "none" THEN <<Lit("None")>> ELSE v.value
EmptyStr == [kind |-> "return", value |-> <<>>]

\* The file names of an upload, str.lower() on them and 'pdf' in the result.
Filenames == {"Paper.PDF", "notes.txt"}
LowerName(name) == IF name = "Paper.PDF" THEN "paper.pdf" ELSE name
HasPdfName(name) == name \in {"paper.pdf"}

\* The "Summary of ..." strings (lines 555-560, 589-594).
summary_banner(what, source, num_words, summ_percentage, summ_type, summ_question, summ) ==
    <<Lit(what), Lit(source), Lit(" with "), Num(num_words), Lit(" words to max "),
      Num(summ_percentage), Lit("%")>>
    \o (IF summ_type = AI_SUMMARIZATION_TYPE.FOCUS_QUESTION
        THEN <<Lit(", focusing on the question "), Lit(summ_question)>>
        ELSE <<>>)
    \o <<Lit(":\n\n")>> \o PyStr(summ)

\* What a branch of the callback leaves behind: whether an exception left the
\* callback, output_string, and what happened on the way.
Branch(uncaught, output_string, obs) ==
    [uncaught |-> uncaught, output_string |-> output_string, obs |-> obs]

\* Lines 543-560: the text of the URL, if there is any, is summarized.
summarize_url_text(url_input, url_text, num_words, output_string, obs, summ_type, summ_question, summ_percentage, fails) ==
    IF TextLen(url_text) > 0
    THEN LET summ == process_text(url_text, summ_type, summ_question,
                                  MAX_TOKENS_PER_CHUNK, summ_percentage, fails)
             seen == [obs EXCEPT !.llm_calls = Len(summ.calls)]
         IN  IF summ.kind = "raise"
             THEN Branch(FALSE, <<Lit("OpenAI API error: ")>> \o summ.value,
                         [seen EXCEPT !.provider_raised = TRUE, !.failed = TRUE])
             ELSE Branch(FALSE,
                         summary_banner("Summary of the content at ", url_input,
                                        num_words, summ_percentage, summ_type,
                                        summ_question, summ),
                         seen)
    ELSE Branch(FALSE, output_string, obs)

\* Lines 520-560: a URL is given.  env: the response, its body, the provider.
summarize_url(url_input, summ_type, summ_question, summ_percentage, env) ==
    LET got == get_content_from_url(env.resp)
        obs == [NoObs EXCEPT !.cb = "summ", !.path = "url",
                             !.status_code = env.resp.status_code,
                             !.fetch_exc = got.exc, !.content_type = got.content_type]
        content_type == got.content_type
    IN  IF got.raised
        THEN Branch(FALSE, <<Lit("HTTP error: ")>> \o got.error,
                    [obs EXCEPT !.fetch_failed = TRUE, !.failed = TRUE])
        ELSE IF HasPdf(content_type)
        THEN LET pdf_object == retrieve_pdf_from_response(env.body, content_type)
                 ex == extract_text_from_pdf(pdf_object.value)
             IN  IF pdf_object.raised
                 THEN summarize_url_text(url_input, Text(FALSE, <<>>), 0, pdf_object.error,
                                         [obs EXCEPT !.failed = TRUE], summ_type,
                                         summ_question, summ_percentage, env.fail_at)
                 ELSE IF ex.raised
                 THEN Branch(TRUE, <<>>,
                             [obs EXCEPT !.extract_failed = TRUE, !.failed = TRUE,
                                         !.uncaught = TRUE])
                 ELSE summarize_url_text(url_input, ex.text, ex.num_words, <<>>, obs,
                                         summ_type, summ_question, summ_percentage,
                                         env.fail_at)
        ELSE IF HasHtml(content_type)
        THEN LET ex == page_to_string(env.body, content_type)
             IN  IF ex.raised
                 THEN summarize_url_text(url_input, Text(FALSE, <<>>), 0, ex.error,
                                         [obs EXCEPT !.extract_failed = TRUE,
                                                     !.failed = TRUE],
                                         summ_type, summ_question, summ_percentage,
                                         env.fail_at)
                 ELSE summarize_url_text(url_input, ex.text, ex.num_words, <<>>, obs,
                                         summ_type, summ_question, summ_percentage,
                                         env.fail_at)
        ELSE summarize_url_text(url_input, Text(FALSE, <<>>), 0, <<>>,
                                [obs EXCEPT !.unsupported = TRUE, !.failed = TRUE],
                                summ_type, summ_question, summ_percentage, env.fail_at)

\* Lines 563-594: no URL, a file is uploaded.  The try covers the decoding, the
\* extraction and process_text; its else branch runs whenever no exception
\* reached the outer except, and writes the banner.
summarize_upload(pdf_filename, summ_type, summ_question, summ_percentage, env) ==
    LET obs == [NoObs EXCEPT !.cb = "summ", !.path = "upload"]
        file_error(e, seen) ==
            Branch(FALSE, <<Lit("Error processing file "), Lit(pdf_filename), Lit(": ")>> \o e,
                   [seen EXCEPT !.failed = TRUE])
        banner(num_words, summ, seen) ==
            Branch(FALSE,
                   summary_banner("Summary of the PDF file ", pdf_filename, num_words,
                                  summ_percentage, summ_type, summ_question, summ),
                   seen)
    IN  IF ~env.b64_ok
        THEN file_error(<<Lit("binascii.Error")>>, [obs EXCEPT !.fetch_failed = TRUE])
        ELSE IF HasPdfName(LowerName(pdf_filename))
        THEN LET ex == extract_text_from_pdf(env.body)
                 summ == process_text(ex.text, summ_type, summ_question,
                                      MAX_TOKENS_PER_CHUNK, summ_percentage, env.fail_at)
                 seen == [obs EXCEPT !.llm_calls = Len(summ.calls)]
             IN  IF ex.raised
                 THEN file_error(ex.error, [obs EXCEPT !.extract_failed = TRUE])
                 ELSE IF summ.kind = "raise"
                 THEN banner(ex.num_words, EmptyStr,
                             [seen EXCEPT !.provider_raised = TRUE, !.failed = TRUE])
                 ELSE banner(ex.num_words, summ, seen)
        ELSE banner(0, EmptyStr, [obs EXCEPT !.unsupported = TRUE, !.failed = TRUE])

\* update_summarize_output (lines 497-603), after a click on the summarize
\* button.  The summ_outputs argument is overwritten with [] on entry (line 513).
update_summarize_output(uploaded_pdf_contents, pdf_filename, url_input, summ_percentage, summ_type, summ_question, env) ==
    LET b == IF ~url_input.is_none /\ Len(url_input.data) > 0
             THEN summarize_url(url_input.data[1].a, summ_type, summ_question,
                                summ_percentage, env)
             ELSE IF ~uploaded_pdf_contents.is_none
             THEN summarize_upload(pdf_filename, summ_type, summ_question,
                                   summ_percentage, env)
             ELSE Branch(FALSE, <<Lit("Please enter a valid URL or upload a PDF.")>>,
                         [NoObs EXCEPT !.cb = "summ", !.failed = TRUE,
                                       !.invalid_input = TRUE])
        summ_outputs1 == Append(<<>>, Markdown(<<Lit("[bot]: ")>> \o b.output_string))
    IN  [raised       |-> b.uncaught,
         text_output  |-> Val(summ_outputs1),
         summ_outputs |-> Val(summ_outputs1),
         obs          |-> b.obs]

\* The running= lists of the two background callbacks (lines 333-337, 488-491).
ChatRunning == {"prompt-button", "clear-button", "download-button"}
SummRunning == {"summ-button", "download-summ-button"}
SetDisabled(d, buttons, value) ==
    [b \in Buttons |-> IF b \in buttons THEN value ELSE d[b]]

NoSummResp == [connected |-> FALSE, status_code |-> 0, content_type |-> None]
NoChatJob == [running |-> FALSE, history |-> None, outputs |-> None,
              sys_prompt |-> <<>>, ai_custom_role |-> None, input_text |-> None]
NoSummJob == [running |-> FALSE]

\* What the user can have in the prompt text area, and the provider's answers.
InputTexts == {None, Val(<<>>), Val(<<Lit("hello")>>)}
SysPrompts == {AI_ROLE_OPTIONS_EN[1]}
CustomRoles == {Val(<<>>)}
ChatAnswers == {ProviderError, ProviderReply(<<Lit("see "), Lit("$$latex$$")>>)}

ListOf(store) == IF store.is_none THEN <<>> ELSE store.data

\* A click on "Send prompt": the callback starts with the stores as they are.
ChatStart ==
    /\ ~disabled["prompt-button"]
    /\ \E input_text \in InputTexts, sys_prompt \in SysPrompts, role \in CustomRoles :
         /\ \/ input_text.is_none
            \/ Len(input_text.data) = 0
            \/ (IF Len(ListOf(history)) = 0 THEN 1 ELSE Len(ListOf(history))) + 2
                   <= MaxHistory
         /\ chat_job' = [running |-> TRUE, history |-> history, outputs |-> outputs,
                        sys_prompt |-> sys_prompt, ai_custom_role |-> role,
                        input_text |-> input_text]
    /\ disabled' = SetDisabled(disabled, ChatRunning, TRUE)
    /\ UNCHANGED <<history, outputs, summ_outputs, text_output, user_text_input,
                   summ_job, last>>
    /\ UNCHANGED pvars

\* The chat callback returns: its outputs are written, its buttons enabled.
ChatFinish ==
    /\ chat_job.running
    /\ \E answer \in ChatAnswers :
           LET r == update_answer_output(chat_job.history, chat_job.outputs,
                                         chat_job.sys_prompt, chat_job.ai_custom_role,
                                         chat_job.input_text, answer)
           IN  /\ text_output' = r.text_output
               /\ user_text_input' = r.user_text_input
               /\ history' = r.history
               /\ outputs' = r.outputs
               /\ last' = r.obs
    /\ disabled' = SetDisabled(disabled, ChatRunning, FALSE)
    /\ chat_job' = NoChatJob
    /\ UNCHANGED <<summ_outputs, summ_job>>
    /\ UNCHANGED pvars

\* A click on "Clear history".
Clear ==
    /\ ~disabled["clear-button"]
    /\ text_output' = update_clear_button.text_output
    /\ user_text_input' = update_clear_button.user_text_input
    /\ history' = update_clear_button.history
    /\ outputs' = update_clear_button.outputs
    /\ last' = [NoObs EXCEPT !.cb = "clear"]
    /\ UNCHANGED <<summ_outputs, disabled, chat_job, summ_job>>
    /\ UNCHANGED pvars

\* What the summarization tab can hold when "Summarize" is clicked.  No
\* callback writes these components: the arguments of a run are the user's.
NoUrl == Val(<<>>)
NoUpload == [contents |-> None, filename |-> ""]
Uploads == {[contents |-> Val(<<Lit("data:application/pdf;base64,...")>>),
             filename |-> f] : f \in Filenames}
SummInputs == {[url_input |-> Val(<<Lit("http://example.org/doc")>>), upload |-> NoUpload],
               [url_input |-> NoUrl, upload |-> NoUpload]}
              \cup {[url_input |-> NoUrl, upload |-> u] : u \in Uploads}
SummQuestion == "Q"

\* What the network, the documents and the provider can do to one run.
StatusCodes == {200, 204, 404, 500}
Responses ==
    {NoSummResp}
    \cup {[connected |-> TRUE, status_code |-> c, content_type |-> h] :
              c \in StatusCodes, h \in {None, Val("text/plain")}}
    \cup {[connected |-> TRUE, status_code |-> 200, content_type |-> h] :
              h \in {None} \cup {Val(t) : t \in ContentTypes}}
DocToks == {MAX_TOKENS_PER_CHUNK}
DocTexts == {Text(FALSE, t) : t \in UNION {[1..n -> DocToks] : n \in 0..MaxDocSentences}}
            \cup {Text(TRUE, <<>>)}
\* A body: a document of some kind with its text, or bytes every parser rejects.
NoBody == [kind |-> "rejected", text |-> Text(FALSE, <<>>)]
Docs(kind) == {[kind |-> kind, text |-> t] : t \in DocTexts}
\* The provider fails no call of a run, or the call for one chunk position.
FailSets(text) == {{}} \cup {{k} : k \in 1..Len(text.toks)}
Env(resp, b64_ok, body, fails) ==
    [resp |-> resp, b64_ok |-> b64_ok, body |-> body, fail_at |-> fails]
\* The bodies worth telling apart under a response: none when the fetch fails or
\* the content type is neither PDF nor HTML.
BodiesOf(resp) ==
    LET got == get_content_from_url(resp)
    IN  IF got.raised THEN {NoBody}
        ELSE IF HasPdf(got.content_type) THEN Docs("pdf") \cup {NoBody}
        ELSE IF HasHtml(got.content_type) THEN Docs("html") \cup {NoBody}
        ELSE {NoBody}
SummEnvs(in) ==
    IF ~in.url_input.is_none /\ Len(in.url_input.data) > 0
    THEN UNION {UNION {{Env(r, TRUE, b, f) : f \in FailSets(b.text)} : b \in BodiesOf(r)} :
                    r \in Responses}
    ELSE IF ~in.upload.contents.is_none
    THEN {Env(NoSummResp, FALSE, NoBody, {})}
         \cup UNION {{Env(NoSummResp, TRUE, b, f) : f \in FailSets(b.text)} :
                        b \in Docs("pdf") \cup {NoBody}}
    ELSE {Env(NoSummResp, TRUE, NoBody, {})}

\* A click on "Summarize".
SummStart ==
    /\ ~disabled["summ-button"]
    /\ summ_job' = [running |-> TRUE]
    /\ disabled' = SetDisabled(disabled, SummRunning, TRUE)
    /\ UNCHANGED <<history, outputs, summ_outputs, text_output, user_text_input,
                   chat_job, last>>
    /\ UNCHANGED pvars

\* The calls the callback can be given: the tab's inputs, a summarization type
\* and what the environment does to the run.
SummCalls ==
    UNION {{[in |-> in, summ_type |-> t, env |-> e] : t \in SummTypes, e \in SummEnvs(in)} :
               in \in SummInputs}
\* What update_summarize_output gives back on them.  It reads no store: its
\* summ_outputs argument is overwritten on entry.
SummRuns ==
    {update_summarize_output(c.in.upload.contents, c.in.upload.filename, c.in.url_input,
                             SummPercent, c.summ_type, SummQuestion, c.env) :
         c \in SummCalls}

\* The summarization callback returns or raises.  An exception that leaves the
\* callback writes none of its outputs.
SummFinish ==
    /\ summ_job.running
    /\ \E r \in SummRuns :
           /\ text_output' = IF r.raised THEN text_output ELSE r.text_output
           /\ summ_outputs' = IF r.raised THEN summ_outputs ELSE r.summ_outputs
           /\ last' = r.obs
    /\ disabled' = SetDisabled(disabled, SummRunning, FALSE)
    /\ summ_job' = NoSummJob
    /\ UNCHANGED <<history, outputs, user_text_input, chat_job>>
    /\ UNCHANGED pvars

\* The page as loaded: empty stores, every button enabled, nothing running.
AppLoaded ==
    /\ history = None
    /\ outputs = None
    /\ summ_outputs = None
    /\ text_output = None
    /\ user_text_input = None
    /\ disabled = [b \in Buttons |-> FALSE]
    /\ chat_job = NoChatJob
    /\ summ_job = NoSummJob
    /\ last = NoObs

-----------------------------------------------------------------------------
\* The pipeline run on its own: split_into_chunks, then process_text, on every
\* sentence list, limit and provider behaviour within the bounds.

TokSeqs == UNION {[1..n -> 1..MaxTok] : n \in 0..MaxSentences}
SentenceSeq(toks) == [i \in 1..Len(toks) |-> Sentence(i, toks[i])]

\* The text whose sentences are the sentence list.
TextOfSentences == Text(FALSE, [i \in 1..Len(sentences) |-> sentences[i].tok])

NoSummary == [kind |-> "none", value |-> <<>>, summary_pieces |-> <<>>, calls |-> <<>>,
              requests |-> <<>>]

PInit ==
    /\ pc = "input"
    /\ sentences \in {SentenceSeq(t) : t \in TokSeqs}
    /\ tokens_limit \in 1..MaxLimit
    /\ fail_at \in SUBSET (1..(MaxSentences + 1))
    /\ summarize_mode \in SummTypes
    /\ chunks = <<>>
    /\ summary = NoSummary
    /\ AppLoaded

CallSplit ==
    /\ pc = "input"
    /\ chunks' = split_into_chunks(sentences, tokens_limit)
    /\ pc' = "chunked"
    /\ UNCHANGED <<sentences, tokens_limit, fail_at, summarize_mode, summary>>
    /\ UNCHANGED avars

CallProcess ==
    /\ pc = "chunked"
    /\ summary' = process_text(TextOfSentences, summarize_mode, SummQuestion, tokens_limit,
                               SummPercent, fail_at)
    /\ pc' = "done"
    /\ UNCHANGED <<sentences, tokens_limit, fail_at, summarize_mode, chunks>>
    /\ UNCHANGED avars

PNext == CallSplit \/ CallProcess

SpecPipeline == PInit /\ [][PNext]_vars

-----------------------------------------------------------------------------
\* The application: one user session.

Init ==
    /\ AppLoaded
    /\ pc = "input"
    /\ sentences = <<>>
    /\ tokens_limit = MAX_TOKENS_PER_CHUNK
    /\ fail_at = {}
    /\ summarize_mode = AI_SUMMARIZATION_TYPE.TEXT_SUMMARIZATION
    /\ chunks = <<>>
    /\ summary = NoSummary

Next == ChatStart \/ ChatFinish \/ Clear \/ SummStart \/ SummFinish

Spec == Init /\ [][Next]_vars

-----------------------------------------------------------------------------
\* Claims about the pipeline run (SpecPipeline).

NumChunks == Len(chunks)
Positions == [k \in 1..NumChunks |-> k]
\* The summaries in a string, in order.
RECURSIVE SummariesOf(_)
SummariesOf(s) ==
    IF s = <<>> THEN <<>>
    ELSE (IF Head(s).a = "summary" THEN <<Head(s)>> ELSE <<>>) \o SummariesOf(Tail(s))
\* The summary of every chunk, in chunk order.
AllChunkSummaries == Flatten([k \in 1..NumChunks |-> ReplyTo(chunks[k])])

\* C1: with every completion succeeding and N >= 1 chunks, process_text calls
\* summarize_chunk once per chunk, for positions 1..N in increasing order, and
\* the string it returns holds the N chunk summaries in chunk order.
C1_OneSummaryPerChunkInOrder ==
    (pc = "done" /\ NumChunks >= 1 /\ fail_at = {})
        => /\ summary.calls = Positions
           /\ summary.kind = "return"
           /\ SummariesOf(summary.value) = AllChunkSummaries

\* C2: a run is all-or-nothing: if the completion of some chunk k in 1..N fails,
\* process_text raises; and what process_text returns is never a summary that
\* misses some chunk's result.
C2_AllOrNothing ==
    pc = "done"
        => /\ (\E k \in 1..NumChunks : k \in fail_at) => summary.kind = "raise"
           /\ summary.kind = "return" => SummariesOf(summary.value) = AllChunkSummaries

\* C3: the chunks of split_into_chunks, concatenated in order and with the
\* separating spaces ignored, are exactly the sentence list: every sentence is
\* whole in exactly one chunk, none dropped, duplicated, reordered or split.
C3_ChunksReconstructSentences ==
    pc # "input"
        => /\ SentencesOf(Flatten(chunks)) = sentences
           /\ \A k \in 1..NumChunks : \A j \in 1..Len(chunks[k]) :
                  chunks[k][j] = SP \/ IsSentence(chunks[k][j])

C3_Witness ==
    /\ pc = "chunked"
    /\ Len(sentences) = 3
    /\ NumChunks = 2
    /\ \E k \in 1..NumChunks : Len(SentencesOf(chunks[k])) = 2

\* C4: every chunk's token count (the sum of its sentences' token counts) is at
\* most the limit, except a chunk that is one sentence whose own count exceeds it.
C4_ChunkWithinLimit ==
    pc # "input"
        => \A k \in 1..NumChunks :
               \/ SumTok(chunks[k]) <= tokens_limit
               \/ /\ Len(SentencesOf(chunks[k])) = 1
                  /\ num_tokens_in_string(SentencesOf(chunks[k])[1]) > tokens_limit

C4_Witness ==
    /\ pc = "chunked"
    /\ \E k \in 1..NumChunks : /\ Len(SentencesOf(chunks[k])) = 2
                               /\ SumTok(chunks[k]) = tokens_limit
    /\ \E k \in 1..NumChunks : SumTok(chunks[k]) > tokens_limit

\* C12: for a fixed sentence list and limits 0 < L1 <= L2, the split at L1 has
\* at least as many chunks as the split at L2.  (tokens_limit is L1, the
\* limits from it up to MaxLimit + 1 are L2.)
C12_ChunkCountMonotone ==
    pc # "input"
        => \A L2 \in tokens_limit..(MaxLimit + 1) :
               Len(split_into_chunks(sentences, L2)) <= NumChunks

C12_Witness ==
    /\ pc = "chunked"
    /\ Len(sentences) = 3
    /\ \E L2 \in (tokens_limit + 1)..(MaxLimit + 1) :
           /\ Len(split_into_chunks(sentences, L2)) < NumChunks
           /\ Len(split_into_chunks(sentences, L2)) > 1

\* C15: every sentence whose own token count exceeds the limit is a chunk by
\* itself: that chunk is the sentence and nothing else.
C15_OversizedSentenceAlone ==
    pc # "input"
        => \A i \in 1..Len(sentences) :
               num_tokens_in_string(sentences[i]) > tokens_limit
                   => \E k \in 1..NumChunks : chunks[k] = <<sentences[i]>>

\* An oversized sentence between two sentences that fit.
C15_Witness ==
    /\ pc = "chunked"
    /\ Len(sentences) = 3
    /\ num_tokens_in_string(sentences[1]) <= tokens_limit
    /\ num_tokens_in_string(sentences[2]) > tokens_limit
    /\ num_tokens_in_string(sentences[3]) <= tokens_limit
    /\ chunks[2] = <<sentences[2]>>

\* C16: every chunk holds at least one sentence, the first sentence alone
\* exceeding the limit included: no chunk is empty, there are no more chunks
\* than sentences, and chunk 1 holds the first sentence.
C16_NoEmptyChunk ==
    pc # "input"
        => /\ \A k \in 1..NumChunks : SentencesOf(chunks[k]) # <<>>
           /\ NumChunks <= Len(sentences)
           /\ sentences # <<>>
                  => (NumChunks >= 1 /\ sentences[1] \in {chunks[1][j] : j \in 1..Len(chunks[1])})

\* C18: process_text raises a provider error or returns a string, on every
\* text, one of no sentence included: it never returns None.
C18_ProcessTextGivesString ==
    pc = "done" => summary.kind \in {"raise", "return"}

\* The wordings of the user prompt: "<chunk_pos>. part of the larger text" and
\* "the following text".
PartWordings == {". part of the larger text ",
                 ". part of the larger text and provide a summary in "}
WholeWordings == {" the following text in ",
                  "Please analyze the following text and provide a summary in "}
HasPartFraming(content, chunk_pos) ==
    \E i \in 1..(Len(content) - 1) :
        content[i] = Num(chunk_pos) /\ content[i + 1].a \in PartWordings
HasWholeFraming(content) == \E i \in 1..Len(content) : content[i].a \in WholeWordings

\* C13: in every summarization mode the user prompt of summarize_chunk has the
\* "<chunk_pos>. part of the larger text" framing exactly when num_chunks > 1,
\* and speaks of "the following text" without it when num_chunks = 1; in the
\* focus-question mode it holds the question; the request sent to the provider
\* is two messages, system then user.
C13_PromptFraming ==
    pc = "done"
        => \A j \in 1..Len(summary.requests) :
               LET request == summary.requests[j]
                   chunk_pos == summary.calls[j]
               IN  /\ Len(request) = 2
                   /\ request[1].role = "system"
                   /\ request[2].role = "user"
                   /\ HasPartFraming(request[2].content, chunk_pos) <=> NumChunks > 1
                   /\ HasWholeFraming(request[2].content) <=> NumChunks = 1
                   /\ summarize_mode = AI_SUMMARIZATION_TYPE.FOCUS_QUESTION
                          => Contains(request[2].content, SummQuestion)

\* A focus-question request for the first of several chunks.
C13_Witness ==
    /\ pc = "done"
    /\ summarize_mode = AI_SUMMARIZATION_TYPE.FOCUS_QUESTION
    /\ NumChunks = 3
    /\ Len(summary.requests) = 1
    /\ HasPartFraming(summary.requests[1][2].content, 1)

-----------------------------------------------------------------------------
\* Claims about the application (Spec).

\* output_string of the summarization run that finished last and returned: the
\* text of the one component it stored, without the "[bot]: " in front.
SummOutputString == Tail(summ_outputs.data[1].children)
IsBanner(str) ==
    str # <<>> /\ str[1].a \in {"Summary of the content at ", "Summary of the PDF file "}
IsProviderErrorText(str) == str # <<>> /\ str[1].a = "OpenAI API error: "
SummReturned == last.cb = "summ" /\ ~last.uncaught

\* C5: on the URL path and on the upload path, when process_text raises a
\* provider error the callback's output string is the provider error message
\* and not a "Summary of ..." banner.
C5_ProviderErrorSurfaced ==
    (last.cb = "summ" /\ last.provider_raised)
        => /\ SummReturned
           /\ IsProviderErrorText(SummOutputString)
           /\ ~IsBanner(SummOutputString)

\* C6: content that is neither application/pdf nor text/html (a URL with
\* another Content-Type, an upload whose name is not a PDF's) is reported as a
\* user-visible error text: never an empty output, never a banner.
C6_UnsupportedTypeReported ==
    (last.cb = "summ" /\ last.unsupported)
        => /\ SummReturned
           /\ SummOutputString # <<>>
           /\ ~IsBanner(SummOutputString)

\* C7: if the fetch stage or the extraction stage fails, on either path, no
\* later stage runs (no completion call is made) and the callback returns a
\* plain descriptive error string; no exception leaves it.
C7_StageFailureEndsRun ==
    (last.cb = "summ" /\ (last.fetch_failed \/ last.extract_failed))
        => /\ last.llm_calls = 0
           /\ ~last.uncaught
           /\ SummOutputString # <<>>
           /\ ~IsBanner(SummOutputString)

\* old is a subsequence of new: every entry of old is still there, in order.
RECURSIVE IsSubseq(_, _)
IsSubseq(old, new) ==
    IF old = <<>> THEN TRUE
    ELSE IF new = <<>> THEN FALSE
    ELSE IF Head(old) = Head(new) THEN IsSubseq(Tail(old), Tail(new))
    ELSE IsSubseq(old, Tail(new))

ChatReturns == chat_job.running /\ ~chat_job'.running
SummReturns == summ_job.running /\ ~summ_job'.running

\* C8: a user action that fails leaves every entry stored before it in the
\* history, the outputs and the summary outputs still present.
C8_FailureKeepsStoredEntries ==
    [][((ChatReturns \/ SummReturns) /\ last'.failed)
           => /\ IsSubseq(ListOf(history), ListOf(history'))
              /\ IsSubseq(ListOf(outputs), ListOf(outputs'))
              /\ IsSubseq(ListOf(summ_outputs), ListOf(summ_outputs'))]_vars

\* The user and assistant messages of a history.
RECURSIVE Turns(_)
Turns(h) ==
    IF h = <<>> THEN <<>>
    ELSE (IF Head(h).role \in {"user", "assistant"} THEN <<Head(h)>> ELSE <<>>)
         \o Turns(Tail(h))

EmptyPrompt(job) == job.input_text.is_none \/ Len(job.input_text.data) = 0

\* C9: the chat callback with an empty or missing prompt displays the literal
\* "Please enter a prompt.", makes no completion call, appends no user or
\* assistant message to the history and leaves the stored outputs list as it is.
C9_EmptyPromptRejected ==
    [][(ChatReturns /\ EmptyPrompt(chat_job))
           => /\ text_output' = Val(<<Markdown(<<Lit("Please enter a prompt.")>>)>>)
              /\ last'.llm_calls = 0
              /\ Turns(ListOf(history')) = Turns(ListOf(history))
              /\ ListOf(outputs') = ListOf(outputs)]_vars

C9_Witness ==
    /\ last.cb = "chat"
    /\ last.invalid_input
    /\ Len(ListOf(history)) >= 3
    /\ Len(ListOf(outputs)) >= 2

\* C10: while a chat or summarization invocation of the session runs, no second
\* invocation, chat or summarization, can start (the submission controls are
\* disabled): at every moment at most one invocation of the session is in flight.
C10_OneInvocationInFlight == ~(chat_job.running /\ summ_job.running)

\* old is the beginning of new.
IsPrefix(old, new) ==
    Len(old) <= Len(new) /\ \A i \in 1..Len(old) : new[i] = old[i]

\* C11: the stored history is append-only over chat turns: the history before
\* a chat invocation returns is a prefix of the history after it, whether the
\* turn succeeded, failed or had an empty prompt; the history becomes empty only
\* by the Clear action, which leaves history and outputs empty.
C11_HistoryAppendOnly ==
    [][/\ ChatReturns
           => /\ IsPrefix(ListOf(history), ListOf(history'))
              /\ IsPrefix(ListOf(chat_job.history), ListOf(history'))
       /\ (ListOf(history) # <<>> /\ ListOf(history') = <<>>) => Clear
       /\ Clear => (ListOf(history') = <<>> /\ ListOf(outputs') = <<>>)]_vars

\* A failed turn and then a second turn, both kept in the history.
C11_Witness ==
    /\ last.cb = "chat"
    /\ ~last.invalid_input
    /\ Len(ListOf(history)) = 4
    /\ ListOf(history)[2].role = "user"
    /\ ListOf(history)[3].role = "user"

\* C17: a non-empty stored history is one system message followed by strictly
\* alternating user and assistant messages, after any sequence of chat turns
\* (failed and retried ones included) and Clear actions: no user message is
\* followed by another user message.
C17_HistoryAlternates ==
    LET h == ListOf(history)
    IN  h # <<>>
            => /\ h[1].role = "system"
               /\ \A i \in 2..Len(h) :
                      h[i].role = (IF i % 2 = 0 THEN "user" ELSE "assistant")

\* The summarization run that finished last had a response to its GET.
UrlResponded == last.cb = "summ" /\ last.path = "url" /\ last.status_code # 0

\* C14: get_content_from_url returns the response and the lower-case content
\* type only when the status is 200; on a status of 400 to 599 it fails with an
\* HTTP error that carries the status; on any other status that is not 200 it
\* raises an HTTP error.
C14_FetchReturnsOnly200 ==
    UrlResponded
        => /\ ~last.fetch_failed
                  => /\ last.status_code = 200
                     /\ last.content_type = Lower(last.content_type)
           /\ (last.status_code >= 400 /\ last.status_code < 600)
                  => /\ last.fetch_failed
                     /\ last.fetch_exc = "HTTPError"
                     /\ \E i \in 1..Len(SummOutputString) :
                            SummOutputString[i] = Num(last.status_code)
           /\ last.status_code # 200
                  => (last.fetch_failed /\ last.fetch_exc = "HTTPError")

=============================================================================
